---- MODULE Spec2Model ----
(***************************************************************************)
(* A model of pykoopman/regression/_nndmd.py: the NNDMD estimator (fit,    *)
(* predict, the fitted properties), the SeqDataModule ingestion and        *)
(* windowing, MaskedMSELoss, the FFNN constructor and the dissipative      *)
(* Koopman operator.                                                       *)
(*                                                                         *)
(* State vectors have one dimension and integer entries; a 2-D array is    *)
(* the sequence of its rows.  A Python object with attributes is a         *)
(* function from the names of the attributes it has to their values, so    *)
(* hasattr(o, a) is  a \in DOMAIN o.                                       *)
(***************************************************************************)
EXTENDS Integers, Sequences, FiniteSets, TLC

\* ------------------------------------------------------------------ bounds
MaxLen == 3          \* rows of an array handed to fit
MaxUpdates == 1      \* optimizer updates applied to one regressor
MaxHorizon == 2      \* horizon n handed to predict
MaxTrajLen == 5      \* states of a trajectory handed to the windowing
MaxWindow == 4       \* look_forward handed to the windowing
MaxPad == 2          \* horizon length of a batch handed to the loss
MaxParam == 1        \* magnitude of a propagator parameter
MaxHidden == 2       \* hidden layers of a network
MaxRows == 3         \* training rows handed to the statistics
MaxCalls == 3        \* evaluations of the loss on one batch

\* ---------------------------------------------------------- Python values
None == [kind |-> "None"]
Other == [kind |-> "other"]
ndarray(ndim, dtype, rows) ==
    [kind |-> "ndarray", ndim |-> ndim, dtype |-> dtype, rows |-> rows]
pylist(items) == [kind |-> "list", items |-> items]

isinstance(v, k) == v.kind = k
IsArray2D(v) == isinstance(v, "ndarray") /\ v.ndim = 2

Min(a, b) == IF a < b THEN a ELSE b
Max(a, b) == IF a > b THEN a ELSE b
SeqMax(s) == IF Len(s) = 0 THEN 0
             ELSE CHOOSE m \in {s[i] : i \in 1..Len(s)} :
                      \A i \in 1..Len(s) : s[i] <= m

\* Python's s[a:b] for 0 <= a: both ends are clipped to the sequence.
Slice(s, a, b) ==
    LET lo == Min(a, Len(s))
        hi == Max(lo, Min(b, Len(s)))
    IN [i \in 1..(hi - lo) |-> s[lo + i]]

\* the concatenation of a sequence of sequences
RECURSIVE Flatten(_)
Flatten(ss) == IF ss = <<>> THEN <<>> ELSE Head(ss) \o Flatten(Tail(ss))

RECURSIVE Sum(_)
Sum(s) == IF s = <<>> THEN 0 ELSE Head(s) + Sum(Tail(s))

SetAttrs(obj, new) == new @@ obj

\* numpy element types
DTypes == {"float32", "float64", "complex128", "int64"}
np_iscomplexobj(a) == a.dtype \in {"complex64", "complex128"}
\* "float" in dtype.name
HasFloatName(a) == a.dtype \in {"float16", "float32", "float64"}
\* the element type np.stack gives the stack of two arrays
result_type(d1, d2) ==
    IF d1 = d2 THEN d1
    ELSE IF "complex128" \in {d1, d2} THEN "complex128"
    ELSE "float64"
\* a.dtype is an instance of numpy.dtype; np.float64 is the scalar type
dtype_object(a) == [kind |-> "dtype", name |-> a.dtype]
np_float64 == [kind |-> "type", name |-> "float64"]
\* Python's `is`: the two are the same object
Is(a, b) == a = b
astype(a, name) == [a EXCEPT !.dtype = name]

\* ------------------------------------------------------------------- FFNN
Activations == {"relu", "sigmoid", "tanh", "swish", "elu", "mish", "linear"}
Linear(n_in, n_out, bias) ==
    [kind |-> "Linear", n_in |-> n_in, n_out |-> n_out, bias |-> bias]
Activation(name) == [kind |-> "Activation", name |-> name]

\* the layer appended for a hidden width, followed by the activation unless
\* the network is linear
HiddenBlock(n_in, n_out, bias, activations) ==
    IF activations # "linear"
    THEN <<Linear(n_in, n_out, bias), Activation(activations)>>
    ELSE <<Linear(n_in, n_out, bias)>>

RECURSIVE HiddenLayers(_, _, _, _)
\* the loop  for i in range(1, len(hidden_sizes))  from index i on (1-based)
HiddenLayers(hidden_sizes, i, bias, activations) ==
    IF i > Len(hidden_sizes) THEN <<>>
    ELSE HiddenBlock(hidden_sizes[i - 1], hidden_sizes[i], bias, activations)
         \o HiddenLayers(hidden_sizes, i + 1, bias, activations)

\* FFNN.__init__: the list self.layers
FFNN(input_size, hidden_sizes, output_size, activations) ==
    LET bias == activations # "linear"
    IN IF Len(hidden_sizes) = 0
       THEN <<Linear(input_size, output_size, bias)>>
       ELSE HiddenBlock(input_size, hidden_sizes[1], bias, activations)
            \o HiddenLayers(hidden_sizes, 2, bias, activations)
            \o <<Linear(hidden_sizes[Len(hidden_sizes)], output_size, FALSE)>>

\* ------------------------------------------------ modules with parameters
\* the sequence a function over 1..n is, with its elements computed once
Tuple(f) == f \o <<>>

\* the layers of an FFNN with parameters: every weight[i][j] is w + i - j
\* and every bias entry is 1
WithParameters(layers, w) ==
    [l \in 1..Len(layers) |->
        IF layers[l].kind = "Linear"
        THEN [kind |-> "Linear",
              weight |-> [i \in 1..layers[l].n_out |->
                             [j \in 1..layers[l].n_in |-> w + i - j]],
              bias |-> IF layers[l].bias
                       THEN [i \in 1..layers[l].n_out |-> 1] ELSE <<>>]
        ELSE layers[l]]

\* nn.Linear on the rows of a batch: x W^T + b
Linear_forward(layer, rows) ==
    Tuple([r \in 1..Len(rows) |-> Tuple([i \in 1..Len(layer.weight) |->
        Sum([j \in 1..Len(rows[r]) |-> layer.weight[i][j] * rows[r][j]])
        + (IF layer.bias = <<>> THEN 0 ELSE layer.bias[i])])])
\* nn.ReLU
ReLU_forward(rows) ==
    Tuple([r \in 1..Len(rows) |->
              Tuple([i \in 1..Len(rows[r]) |-> Max(0, rows[r][i])])])

\* FFNN.forward: for layer in self.layers: x = layer(x)
RECURSIVE FFNN_forward(_, _)
FFNN_forward(layers, rows) ==
    IF layers = <<>> THEN rows
    ELSE FFNN_forward(Tail(layers),
                      IF Head(layers).kind = "Linear"
                      THEN Linear_forward(Head(layers), rows)
                      ELSE ReLU_forward(rows))

MatMul(A, B) ==
    [i \in 1..Len(A) |-> [j \in 1..Len(B[1]) |->
        Sum([k \in 1..Len(B) |-> A[i][k] * B[k][j]])]]
\* torch.matrix_exp by its series I + M + M.M/2, which is exact for the
\* generators used here: their square is zero
matrix_exp(M) ==
    Tuple([i \in 1..Len(M) |-> Tuple([j \in 1..Len(M) |->
        (IF i = j THEN 1 ELSE 0) + M[i][j] + (MatMul(M, M)[i][j] \div 2)])])

StandardKoopmanOperator(K) ==
    [kind |-> "StandardKoopmanOperator", K |-> K, dt |-> 1]
StandardKoopmanOperator_get_K(op) == op.K
\* BaseKoopmanOperator.get_discrete_time_Koopman_Operator
get_discrete_time_Koopman_Operator(op) ==
    LET K == StandardKoopmanOperator_get_K(op)
    IN matrix_exp([i \in 1..Len(K) |-> [j \in 1..Len(K) |-> op.dt * K[i][j]]])
\* BaseKoopmanOperator.forward: x @ A^T
BaseKoopmanOperator_forward(op, rows) ==
    LET A == get_discrete_time_Koopman_Operator(op)
    IN Tuple([r \in 1..Len(rows) |-> Tuple([i \in 1..Len(A) |->
           Sum([j \in 1..Len(rows[r]) |-> rows[r][j] * A[i][j]])])])

\* a module with parameters called on the rows of a batch
Applied(module, rows) ==
    IF module.kind = "FFNN" THEN FFNN_forward(module.layers, rows)
    ELSE BaseKoopmanOperator_forward(module, rows)

\* -------------------------------------------------------------- windowing
\* the samples one trajectory contributes: pairs <<x window, y window>>
\* (a variant that stops one window early)
RECURSIVE SubTrajectoriesShort(_, _, _, _)
SubTrajectoriesShort(seq, look_back, look_forward, i) ==
    IF i >= Len(seq) - look_back - look_forward THEN <<>>
    ELSE << <<Slice(seq, i, i + look_back),
              Slice(seq, i + look_back, i + look_back + look_forward)>> >>
         \o SubTrajectoriesShort(seq, look_back, look_forward, i + 1)

RECURSIVE SubTrajectories(_, _, _, _)
SubTrajectories(seq, look_back, look_forward, i) ==
    IF i >= Len(seq) - look_back - look_forward + 1 THEN <<>>
    ELSE << <<Slice(seq, i, i + look_back),
              Slice(seq, i + look_back, i + look_back + look_forward)>> >>
         \o SubTrajectories(seq, look_back, look_forward, i + 1)

DelayedSamples(seq, look_back, look_forward) ==
    LET n_sub_traj == Len(seq) - look_back - look_forward + 1
    IN IF n_sub_traj >= 1
       THEN SubTrajectories(seq, look_back, look_forward, 0)
       ELSE << <<Slice(seq, 0, 1), Slice(seq, 1, Len(seq))>> >>

\* torch's pad_sequence(batch_first=True): zeros up to the longest sequence
pad_sequence(seqs) ==
    LET H == SeqMax([i \in 1..Len(seqs) |-> Len(seqs[i])])
    IN [i \in 1..Len(seqs) |->
           [t \in 1..H |-> IF t <= Len(seqs[i]) THEN seqs[i][t] ELSE 0]]

\* SeqDataModule.convert_seq_list_to_delayed_data on a non-empty list of
\* trajectories (each the sequence of its rows):
\* time_delayed_x, time_delayed_yseq, time_delayed_yseq_lens
convert_seq_list_to_delayed_data(data_list, look_back, look_forward) ==
    LET samples == Flatten([k \in 1..Len(data_list) |->
                       DelayedSamples(data_list[k], look_back, look_forward)])
        time_delayed_x_list == [i \in 1..Len(samples) |-> samples[i][1]]
        time_delayed_yseq_list == [i \in 1..Len(samples) |-> samples[i][2]]
    IN [x |-> time_delayed_x_list,
        yseq |-> pad_sequence(time_delayed_yseq_list),
        ys |-> [i \in 1..Len(samples) |-> Len(time_delayed_yseq_list[i])]]

\* ---------------------------------------------------------- MaskedMSELoss
\* A tensor of shape (batch, horizon, features) is a sequence (samples) of
\* sequences (steps) of sequences (features).
RECURSIVE StepsSum(_)
StepsSum(steps) ==
    IF steps = <<>> THEN 0 ELSE Sum(Head(steps)) + StepsSum(Tail(steps))
RECURSIVE TensorSum(_)
TensorSum(t) == IF t = <<>> THEN 0 ELSE StepsSum(Head(t)) + TensorSum(Tail(t))

\* (a variant that ignores max_look_forward)
LossMaskUncapped(output, target_lens, max_look_forward) ==
    [i \in 1..Len(output) |->
        [t \in 1..Len(output[i]) |-> [f \in 1..Len(output[i][t]) |->
            IF t <= target_lens[i] THEN 1 ELSE 0]]]

\* the mask forward builds: mask[i, :length_used, :] = 1
LossMask(output, target_lens, max_look_forward) ==
    [i \in 1..Len(output) |->
        LET length == target_lens[i]
            length_used == IF length > max_look_forward
                           THEN max_look_forward ELSE length
        IN [t \in 1..Len(output[i]) |-> [f \in 1..Len(output[i][t]) |->
               IF t <= length_used THEN 1 ELSE 0]]]

\* MaskedMSELoss.forward: the quotient squared_diff_masked.sum() / mask.sum()
\* as its numerator and denominator (0 / 0 is NaN)
MaskedMSELoss(output, target, target_lens, max_look_forward) ==
    LET mask == LossMask(output, target_lens, max_look_forward)
        \* broadcasting repeats a horizon axis of length 1
        H == Max(Len(output[1]), Len(target[1]))
        at(tensor, i, t) == tensor[i][IF Len(tensor[i]) = 1 THEN 1 ELSE t]
        squared_diff ==
            [i \in 1..Len(output) |-> [t \in 1..H |->
                [f \in 1..Len(output[i][1]) |->
                    (at(output, i, t)[f] - at(target, i, t)[f])
                    * (at(output, i, t)[f] - at(target, i, t)[f])]]]
        squared_diff_masked ==
            [i \in 1..Len(output) |-> [t \in 1..H |->
                [f \in 1..Len(output[i][1]) |->
                    squared_diff[i][t][f] * at(mask, i, t)[f]]]]
    IN [num |-> TensorSum(squared_diff_masked), den |-> TensorSum(mask)]

\* ---------------------------------------------------------- SeqDataModule
\* the outcome of a call: what it raised ("" when it returned), the warnings
\* it emitted, and the value it returned or the object it left behind
Outcome(raised, warnings, value) ==
    [raised |-> raised, warnings |-> warnings, value |-> value]

WarnFloat64 == "Found float64 data. Will convert to float32"
WarnNoValidation == "Warning: no validation data prepared"

SeqDataModule(data_tr, data_val, look_forward, normalize, mode, factor) ==
    [data_tr |-> data_tr, data_val |-> data_val,
     look_forward |-> look_forward, look_back |-> 1,
     normalize |-> normalize, normalize_mode |-> mode,
     normalization |-> None, inverse_transform |-> None,
     normalize_std_factor |-> factor]

\* (a variant without the test of the dtype name)
check_list_of_nparray_any_dtype(data_list) ==
    IF \E i \in 1..Len(data_list) : np_iscomplexobj(data_list[i])
    THEN Outcome("TypeError", {}, data_list)
    ELSE Outcome("", {},
                 [i \in 1..Len(data_list) |->
                     IF data_list[i].dtype = "float64"
                     THEN astype(data_list[i], "float32") ELSE data_list[i]])

\* SeqDataModule.check_list_of_nparray on a sequence of arrays; value is the
\* list as the call leaves it (it is converted in place)
check_list_of_nparray(data_list) ==
    LET n == Len(data_list)
        notfloat == {i \in 1..n : ~HasFloatName(data_list[i])}
        stop == IF notfloat = {} THEN n + 1
                ELSE CHOOSE i \in notfloat : \A j \in notfloat : i <= j
        converted == [i \in 1..n |->
                         IF i < stop /\ data_list[i].dtype = "float64"
                         THEN astype(data_list[i], "float32")
                         ELSE data_list[i]]
        warnings == IF \E i \in 1..n :
                           Is(dtype_object(data_list[i]), np_float64)
                    THEN {WarnFloat64} ELSE {}
    IN IF \E i \in 1..n : np_iscomplexobj(data_list[i])
       THEN Outcome("TypeError", {}, data_list)
       ELSE IF stop <= n THEN Outcome("TypeError", warnings, converted)
       ELSE Outcome("", warnings, converted)

\* ---------------------------------------------------------- normalization
\* Lengths are whole numbers of 1e-6, so the guard's threshold 1e-6 is 1
\* and its floor 1e-3 is 1000.
normalize_std_factor == 2
StdThreshold == 1
StdFloor == 1000

\* A standard deviation is irrational in general: a scale is kept as the
\* rational sq and the whole number plus, and stands for sqrt(sq) + plus.
Rational(num, den) == [num |-> num, den |-> den]
ScaleOf(sq) == [sq |-> sq, plus |-> 0]
\* scale < c, for a whole number c
ScaleLess(scale, c) ==
    /\ c - scale.plus > 0
    /\ scale.sq.num < (c - scale.plus) * (c - scale.plus) * scale.sq.den
ScalePositive(scale) == scale.sq.num > 0 \/ scale.plus > 0
\* a.max() for a vector of scales without floor
ScaleMax(a) ==
    CHOOSE m \in {a[k] : k \in 1..Len(a)} :
        \A k \in 1..Len(a) : a[k].sq.num * m.sq.den <= m.sq.num * a[k].sq.den

Column(rows, k) == [i \in 1..Len(rows) |-> rows[i][k]]
\* the square of np.std of a column: (N * sum(x^2) - sum(x)^2) / N^2
Variance(col) ==
    LET N == Len(col)
    IN Rational(N * Sum([i \in 1..N |-> col[i] * col[i]]) - Sum(col) * Sum(col),
                N * N)

\* (a variant without the guard)
FloorGuardNone(std) == std
\* the guard against division by zero: std[i] += 1e-3 where std[i] < 1e-6
FloorGuard(std) ==
    [i \in 1..Len(std) |->
        IF ScaleLess(std[i], StdThreshold)
        THEN [std[i] EXCEPT !.plus = @ + StdFloor] ELSE std[i]]

\* the statistics prepare_data stores for the stacked training rows
\* (vectors): the mean times 0, and the guarded scale
Statistics(rows, normalize_mode, std_factor) ==
    LET d == Len(rows[1])
        \* mean * 0, with the mean as sum over count
        mean == [k \in 1..d |-> (Sum(Column(rows, k)) * 0) \div Len(rows)]
        \* std * normalize_std_factor
        std == [k \in 1..d |->
                   LET v == Variance(Column(rows, k))
                   IN ScaleOf(Rational(std_factor * std_factor * v.num, v.den))]
        moded == IF normalize_mode = "max"
                 THEN [k \in 1..d |-> ScaleMax(std)] ELSE std
    IN [mean |-> mean, std |-> FloorGuard(moded)]

\* tensors are expressions: a tensor of given rows, a module applied to a
\* tensor, or an elementwise operation with a vector broadcast over the rows
FloatTensor(rows) == [f |-> "tensor", rows |-> rows]
Elementwise(f, a, b) == [f |-> f, a |-> a, b |-> b]

TensorNormalize(mean, std) ==
    [kind |-> "TensorNormalize", mean |-> mean, std |-> std]
\* TensorNormalize.forward: torch.divide(tensor - self.mean, self.std)
TensorNormalize_forward(m, tensor) ==
    Elementwise("divide", Elementwise("sub", tensor, m.mean), m.std)

InverseTensorNormalize(mean, std) ==
    [kind |-> "InverseTensorNormalize", mean |-> mean, std |-> std]
\* InverseTensorNormalize.forward: torch.multiply(tensor, self.std) + self.mean
InverseTensorNormalize_forward(m, tensor) ==
    Elementwise("add", Elementwise("multiply", tensor, m.std), m.mean)

\* The value of a tensor, with every module taken to be the identity map.
\* A component is the whole number c times the p-th power of the scale s
\* (p = 0: c itself), or NaN when it is not finite or not of that form.
NaN == [kind |-> "nan"]
Number(c) == [c |-> c, p |-> 0, s |-> None]
\* v - m (sign -1) or v + m (sign 1), for a whole number m
Shifted(v, m, sign) ==
    IF v = NaN THEN NaN
    ELSE IF m = 0 THEN v
    ELSE IF v.p = 0 THEN Number(v.c + sign * m)
    ELSE NaN
\* v / s (dp -1) or v * s (dp 1), for a scale s; x / 0 is not finite
Scaled(v, s, dp) ==
    IF v = NaN THEN NaN
    ELSE IF dp = -1 /\ ~ScalePositive(s) THEN NaN
    ELSE IF dp = 1 /\ ~ScalePositive(s) THEN Number(0)
    ELSE IF v.p = 0 THEN [c |-> v.c, p |-> dp, s |-> s]
    ELSE IF v.s # s THEN NaN
    ELSE IF v.p + dp = 0 THEN Number(v.c)
    ELSE [c |-> v.c, p |-> v.p + dp, s |-> s]

RECURSIVE Value(_)
Value(t) ==
    LET broadcast(op(_, _)) ==
            LET a == Value(t.a)
            IN [i \in 1..Len(a) |-> [k \in 1..Len(a[i]) |-> op(a[i][k], t.b[k])]]
        sub(v, m) == Shifted(v, m, -1)
        add(v, m) == Shifted(v, m, 1)
        divide(v, m) == Scaled(v, m, -1)
        multiply(v, m) == Scaled(v, m, 1)
    IN CASE t.f = "tensor" ->
              [i \in 1..Len(t.rows) |->
                  [k \in 1..Len(t.rows[i]) |-> Number(t.rows[i][k])]]
         [] t.f = "apply" -> Value(t.of)
         [] t.f = "sub" -> broadcast(sub)
         [] t.f = "add" -> broadcast(add)
         [] t.f = "divide" -> broadcast(divide)
         [] t.f = "multiply" -> broadcast(multiply)

RowsOf(data_list) == [i \in 1..Len(data_list) |-> data_list[i].rows]
\* np.vstack(data_list): the rows of all trajectories, each row the vector
\* of its one component
np_vstack(data_list) ==
    LET rows == Flatten(RowsOf(data_list))
    IN [i \in 1..Len(rows) |-> <<rows[i]>>]

\* (a variant that stacks the validation trajectories too)
stacked_with_validation(dm, data_list) ==
    np_vstack(data_list \o (IF dm.data_val = None THEN <<>>
                            ELSE dm.data_val.items))
\* the rows prepare_data takes the statistics of: data_list is the checked
\* training list
stacked_data_list(dm, data_list) == np_vstack(data_list)

\* the module with the statistics of its training rows and the two
\* transforms built from them
with_statistics(dm, stats) ==
    SetAttrs(dm, [mean |-> stats.mean, std |-> stats.std,
                  normalization |-> TensorNormalize(stats.mean, stats.std),
                  inverse_transform |->
                      InverseTensorNormalize(stats.mean, stats.std)])
\* the module with the windows of its training trajectories
with_training_windows(dm, delayed) ==
    SetAttrs(dm, ("_tr_x" :> delayed.x) @@ ("_tr_yseq" :> delayed.yseq)
                 @@ ("_tr_ys" :> delayed.ys))
\* the module with the windows of its validation trajectories
with_validation_windows(dm, delayed) ==
    SetAttrs(dm, ("_val_x" :> delayed.x) @@ ("_val_yseq" :> delayed.yseq)
                 @@ ("_val_ys" :> delayed.ys))

\* prepare_data on the validation list val, checked, of a module whose
\* training data are prepared
prepare_validation(dm, warnings, val) ==
    IF val.raised # ""
    THEN Outcome(val.raised, warnings \cup val.warnings,
                 [dm EXCEPT !.data_val = pylist(val.value)])
    ELSE Outcome("", warnings \cup val.warnings,
                 with_validation_windows(
                     [dm EXCEPT !.data_val = pylist(val.value)],
                     convert_seq_list_to_delayed_data(
                         RowsOf(val.value), dm.look_back, dm.look_forward)))

\* prepare_data after the check of the training list, whose outcome is tr
prepare_training(dm, tr) ==
    IF tr.raised # ""
    THEN Outcome(tr.raised, tr.warnings, [dm EXCEPT !.data_tr = pylist(tr.value)])
    ELSE IF Len(tr.value) = 0
    THEN \* np.vstack of an empty list, or pad_sequence of one (the
         \* kind of the latter's error varies with the torch release)
         Outcome(IF dm.normalize THEN "ValueError" ELSE "RuntimeError",
                 tr.warnings, [dm EXCEPT !.data_tr = pylist(tr.value)])
    ELSE
    LET dm1 == [dm EXCEPT !.data_tr = pylist(tr.value)]
        dm2 == IF dm.normalize
               THEN with_statistics(dm1,
                        Statistics(stacked_data_list(dm, tr.value),
                                   dm.normalize_mode, dm.normalize_std_factor))
               ELSE dm1
        dm3 == with_training_windows(dm2,
                   convert_seq_list_to_delayed_data(
                       RowsOf(tr.value), dm.look_back, dm.look_forward))
    IN IF dm.data_val = None
       THEN Outcome("", tr.warnings \cup {WarnNoValidation}, dm3)
       ELSE prepare_validation(dm3, tr.warnings,
                               check_list_of_nparray(dm.data_val.items))

\* SeqDataModule.prepare_data on a module whose data_tr is a list; value is
\* the module as the call leaves it
prepare_data(dm) ==
    prepare_training(dm, check_list_of_nparray(dm.data_tr.items))

\* SeqDataDataset.__init__; x.squeeze(1) drops the look-back axis
SeqDataDataset(x, y, ys, transform) ==
    [x |-> [i \in 1..Len(x) |-> x[i][1]], y |-> y, ys |-> ys,
     normalization |-> transform]

\* SeqDataDataset.__getitem__: copies of the sample's tensors, normalized
\* when there is a transform; the dataset is left as it is
getitem(dataset, idx) ==
    LET x == FloatTensor(<< <<dataset.x[idx]>> >>)
        y == FloatTensor([t \in 1..Len(dataset.y[idx]) |-> <<dataset.y[idx][t]>>])
    IN IF dataset.normalization # None
       THEN [x |-> TensorNormalize_forward(dataset.normalization, x),
             y |-> TensorNormalize_forward(dataset.normalization, y),
             ys |-> dataset.ys[idx]]
       ELSE [x |-> x, y |-> y, ys |-> dataset.ys[idx]]

\* SeqDataModule.setup("fit") on a prepared module
setup(dm) ==
    LET tr == "tr_dataset" :>
                  SeqDataDataset(dm["_tr_x"], dm["_tr_yseq"], dm["_tr_ys"],
                                 dm.normalization)
    IN IF dm.data_val # None
       THEN SetAttrs(dm, tr @@ ("val_dataset" :>
                SeqDataDataset(dm["_val_x"], dm["_val_yseq"], dm["_val_ys"],
                               dm.normalization)))
       ELSE SetAttrs(dm, tr)

\* the batch train_dataloader and collate_fn give when the whole dataset
\* fits in one batch, in the order of the dataset
train_batch(dm) ==
    LET dataset == dm.tr_dataset
        samples == [idx \in 1..Len(dataset.ys) |-> getitem(dataset, idx)]
    IN [x |-> [i \in 1..Len(samples) |-> samples[i].x],
        y |-> [i \in 1..Len(samples) |-> samples[i].y],
        ys |-> [i \in 1..Len(samples) |-> samples[i].ys]]

\* the number of rows of a tensor
RECURSIVE size0(_)
size0(t) == IF t.f = "tensor" THEN Len(t.rows)
            ELSE IF t.f = "apply" THEN size0(t.of) ELSE size0(t.a)

\* ------------------------------------------------------------------ NNDMD
\* The estimator object, and the latest call on it: its name, its arguments
\* and its outcome.
VARIABLES self, ret,
          windowing,     \* a trajectory list, look_forward and its windows
          criterion,     \* a batch handed to MaskedMSELoss and its loss
          propagator,    \* the parameters of a DissipativeKoopmanOperator
          network,       \* an FFNN configuration and its layers
          normalizer,    \* training rows, their statistics and a round trip
          training       \* a regressor with its weights, and a batch

vars == <<self, ret, windowing, criterion, propagator, network, normalizer,
          training>>
estVars == <<self, ret>>
\* what a specification leaves alone
Unused(v) == v = None

\* the configurations the estimator is constructed with: states of one
\* dimension, a latent space of two, one hidden layer
EncoderConfig ==
    [input_size |-> 1, hidden_sizes |-> <<3>>, output_size |-> 2,
     activations |-> "tanh"]
DecoderConfigs ==
    {[input_size |-> 2, hidden_sizes |-> <<3>>, output_size |-> 1,
      activations |-> a] : a \in {"linear", "tanh"}}

\* DLKoopmanRegressor.__init__: the decoder's layers, the horizon the
\* training step allocates its forecasts for, and the updates taken so far
DLKoopmanRegressor(look_forward, config_decoder) ==
    [decoder_layers |-> FFNN(config_decoder.input_size,
                             config_decoder.hidden_sizes,
                             config_decoder.output_size,
                             config_decoder.activations),
     look_forward |-> look_forward,
     input_size |-> EncoderConfig.input_size,
     masked_loss_metric |-> [max_look_forward |-> 1],
     updates |-> 0]

\* a module of the regressor (_encoder, _koopman_propagator, _decoder)
\* applied to a tensor: computed when the regressor carries the values of
\* its parameters, and otherwise the expression naming the module and the
\* updates that have shaped its parameters
Module(regressor, name, tensor) ==
    IF "parameters" \in DOMAIN regressor
    THEN FloatTensor(Applied(regressor.parameters[name], tensor.rows))
    ELSE [f |-> "apply", module |-> name, updates |-> regressor.updates,
          of |-> tensor]

\* the loop of _propagate_encoded_n_steps with `rest` iterations to go and
\* the list encoded_future so far
RECURSIVE encoded_future(_, _, _, _)
encoded_future(regressor, encoded, rest, future) ==
    IF rest <= 0 THEN future
    ELSE LET next == Module(regressor, "_koopman_propagator", encoded)
         IN encoded_future(regressor, next, rest - 1, Append(future, next))

\* DLKoopmanRegressor._propagate_encoded_n_steps for n >= 1: the tensor
\* stacked along the step axis, as the sequence of its steps
_propagate_encoded_n_steps(regressor, encoded, n) ==
    encoded_future(regressor, encoded, n, <<>>)

\* (a variant that decodes the first step)
DLKoopmanRegressor_forward_first(regressor, x, n) ==
    LET encoded == Module(regressor, "_encoder", x)
        phi_seq == _propagate_encoded_n_steps(regressor, encoded, n)
    IN Module(regressor, "_decoder", phi_seq[1])

\* DLKoopmanRegressor.forward
DLKoopmanRegressor_forward(regressor, x, n) ==
    LET encoded == Module(regressor, "_encoder", x)
        phi_seq == _propagate_encoded_n_steps(regressor, encoded, n)
    IN Module(regressor, "_decoder", phi_seq[Len(phi_seq)])

\* NNDMD.__init__
NNDMD(look_forward, config_decoder, normalize) ==
    ("look_forward" :> look_forward) @@ ("config_decoder" :> config_decoder)
    @@ ("normalize" :> normalize) @@ ("config_encoder" :> EncoderConfig)
    @@ ("normalize_mode" :> "equal")
    @@ ("normalize_std_factor" :> normalize_std_factor)
    @@ ("_regressor" :> DLKoopmanRegressor(look_forward, config_decoder))

hasattr(obj, name) == name \in DOMAIN obj
Call(op, args, outcome) ==
    [op |-> op, args |-> args, raised |-> outcome.raised,
     warnings |-> outcome.warnings, value |-> outcome.value]

\* the branch of fit that builds the trajectory lists: raised, or the
\* training and validation lists and n_samples_
SingleTrajectoryPairs(x) ==
    [i \in 1..(Len(x.rows) - 1) |->
        ndarray(2, x.dtype, <<x.rows[i], x.rows[i + 1]>>)]
PairedStatePairs(x, y) ==
    [i \in 1..(Len(x.rows) - 1) |->
        ndarray(2, result_type(x.dtype, y.dtype), <<x.rows[i], y.rows[i]>>)]

fit_dispatch(x, y) ==
    IF y = None /\ IsArray2D(x)
    THEN [raised |-> "", data_tr |-> pylist(SingleTrajectoryPairs(x)),
          data_val |-> None, n_samples |-> Len(x.rows) - 1]
    ELSE IF IsArray2D(x) /\ IsArray2D(y)
    THEN IF Len(y.rows) < Len(x.rows) - 1
         THEN [raised |-> "IndexError"]      \* t1[i] past the end of y
         ELSE [raised |-> "", data_tr |-> pylist(PairedStatePairs(x, y)),
               data_val |-> None, n_samples |-> Len(x.rows) - 1]
    ELSE IF isinstance(x, "list") /\ y = None
    THEN [raised |-> "", data_tr |-> x, data_val |-> None,
          n_samples |-> Len(x.items)]
    ELSE IF isinstance(x, "list") /\ isinstance(y, "list")
    THEN [raised |-> "", data_tr |-> x, data_val |-> y,
          n_samples |-> Len(x.items)]
    ELSE [raised |-> "ValueError"]

\* whether the first training step on the prepared module raises: the
\* forecast tensor has look_forward steps, the padded targets have the
\* longest valid length H, and the two must broadcast; no steps to unroll
\* (an empty torch.stack) raises too
training_step_raises(regressor, batch) ==
    LET H == size0(batch.y[1])
        L == regressor.look_forward
    IN SeqMax(batch.ys) = 0 \/ ~(H = L \/ H = 1 \/ L = 1)

\* the regressor carrying the values of its parameters: the encoder and the
\* decoder with weights from w_enc and w_dec, the propagator with matrix K
WithValues(regressor, config_encoder, w_enc, w_dec, K) ==
    ("parameters" :>
        (("_encoder" :>
             [kind |-> "FFNN",
              layers |-> WithParameters(FFNN(config_encoder.input_size,
                                             config_encoder.hidden_sizes,
                                             config_encoder.output_size,
                                             config_encoder.activations),
                                        w_enc)])
         @@ ("_decoder" :>
             [kind |-> "FFNN",
              layers |-> WithParameters(regressor.decoder_layers, w_dec)])
         @@ ("_koopman_propagator" :> StandardKoopmanOperator(K))))
    @@ ("grad" :> None) @@ ("logged" :> None) @@ regressor

\* torch.nn.functional.mse_loss of two (B, F) tensors: the mean over all
\* their elements
mse_loss(input, target) ==
    Rational(Sum([i \in 1..Len(input) |->
                 Sum([f \in 1..Len(input[i]) |->
                     (input[i][f] - target[i][f])
                     * (input[i][f] - target[i][f])])]),
             Len(input) * Len(input[1]))
RationalSum(a, b) == Rational(a.num * b.den + b.num * a.den, a.den * b.den)
RationalEq(a, b) == a.num * b.den = b.num * a.den

\* the tensors of a collated batch: x of shape (B, F), y of shape (B, H, F)
\* and its slice y[:, t, :]
batch_x(batch) ==
    FloatTensor([i \in 1..Len(batch.x) |-> batch.x[i].rows[1]])
batch_y(batch) == [i \in 1..Len(batch.y) |-> batch.y[i].rows]
batch_y_at(batch, t) ==
    FloatTensor([i \in 1..Len(batch.y) |-> batch.y[i].rows[t]])
\* torch.zeros((x.size(0), self.look_forward, self.input_size))
zeros(B, L, F) == [i \in 1..B |-> [t \in 1..L |-> [f \in 1..F |-> 0]]]

\* DLKoopmanRegressor.training_step of the standard mode: the loss it
\* returns, its two parts, and the regressor after the call
training_step(regressor, batch) ==
    LET x == batch_x(batch)
        y == batch_y(batch)
        ys == batch.ys
        batch_look_forward == SeqMax(ys)
        encoded_x == Module(regressor, "_encoder", x)
        phi_seq == _propagate_encoded_n_steps(regressor, encoded_x,
                                              batch_look_forward)
        blank == zeros(size0(x), regressor.look_forward,
                       regressor.input_size)
        decoded_y_seq_rnn ==
            Tuple([i \in 1..Len(blank) |-> Tuple([t \in 1..Len(blank[i]) |->
                IF t <= batch_look_forward
                THEN Module(regressor, "_decoder", phi_seq[t]).rows[i]
                ELSE blank[i][t]])])
        rnn_loss == MaskedMSELoss(decoded_y_seq_rnn, y, ys,
                        regressor.masked_loss_metric.max_look_forward)
        decoded_x == Module(regressor, "_decoder", encoded_x)
        rec_loss_x == mse_loss(decoded_x.rows, x.rows)
        decoded_y_seq_rec ==
            Tuple([i \in 1..Len(blank) |-> Tuple([t \in 1..Len(blank[i]) |->
                IF t <= batch_look_forward
                THEN Module(regressor, "_decoder",
                            Module(regressor, "_encoder",
                                   batch_y_at(batch, t))).rows[i]
                ELSE blank[i][t]])])
        rec_loss == RationalSum(rec_loss_x,
                        MaskedMSELoss(decoded_y_seq_rec, y, ys,
                            regressor.masked_loss_metric.max_look_forward))
        loss == RationalSum(rnn_loss, rec_loss)
    IN IF training_step_raises(regressor, batch)
       THEN [raised |-> "RuntimeError", loss |-> None, rnn_loss |-> None,
             rec_loss |-> None, regressor |-> regressor]
       ELSE [raised |-> "", loss |-> loss, rnn_loss |-> rnn_loss,
             rec_loss |-> rec_loss,
             regressor |-> [regressor EXCEPT !.logged =
                 [loss |-> loss, rec_loss |-> rec_loss,
                  rnn_loss |-> rnn_loss]]]

\* a closure whose loss leaves out the reconstruction part
closure_rnn_only(regressor, batch) ==
    LET step == training_step(regressor, batch)
    IN [step EXCEPT !.loss = step.rnn_loss]

\* the closure the L-BFGS mode hands to optimizer.step: the loss it returns,
\* its two parts, and the regressor after the call, with the gradients of
\* that loss (zero_grad, then manual_backward) and the logged metrics
closure(regressor, batch) ==
    LET x == batch_x(batch)
        y == batch_y(batch)
        ys == batch.ys
        batch_look_forward == SeqMax(ys)
        encoded_x == Module(regressor, "_encoder", x)
        phi_seq == _propagate_encoded_n_steps(regressor, encoded_x,
                                              batch_look_forward)
        B == size0(x)
        L == regressor.look_forward
        F == regressor.input_size
        decoded_y_seq_rnn ==
            Tuple([i \in 1..B |-> Tuple([t \in 1..L |->
                IF t > batch_look_forward THEN zeros(B, L, F)[i][t]
                ELSE Module(regressor, "_decoder", phi_seq[t]).rows[i]])])
        rnn_loss == MaskedMSELoss(decoded_y_seq_rnn, y, ys,
                        regressor.masked_loss_metric.max_look_forward)
        decoded_x == Module(regressor, "_decoder", encoded_x)
        rec_loss_0 == mse_loss(decoded_x.rows, x.rows)
        decoded_y_seq_rec ==
            Tuple([i \in 1..B |-> Tuple([t \in 1..L |->
                IF t > batch_look_forward THEN zeros(B, L, F)[i][t]
                ELSE Module(regressor, "_decoder",
                            Module(regressor, "_encoder",
                                   batch_y_at(batch, t))).rows[i]])])
        rec_loss_1 == MaskedMSELoss(decoded_y_seq_rec, y, ys,
                          regressor.masked_loss_metric.max_look_forward)
        rec_loss == RationalSum(rec_loss_0, rec_loss_1)
        loss == RationalSum(rnn_loss, rec_loss)
    IN IF batch_look_forward = 0
          \/ ~(Len(y[1]) = L \/ Len(y[1]) = 1 \/ L = 1)
       THEN [raised |-> "RuntimeError", loss |-> None, rnn_loss |-> None,
             rec_loss |-> None, regressor |-> regressor]
       ELSE [raised |-> "", loss |-> loss, rnn_loss |-> rnn_loss,
             rec_loss |-> rec_loss,
             regressor |-> [regressor EXCEPT
                 !.grad = [of |-> loss],
                 !.logged = [loss |-> loss, rec_loss |-> rec_loss,
                             rnn_loss |-> rnn_loss]]]
\* the fitted outputs fit computes from the trained regressor
KoopmanOutputs(regressor) ==
    LET A == [kind |-> "operator", updates |-> regressor.updates]
    IN ("_state_matrix_" :> A)
       @@ ("_eigenvalues_" :> [kind |-> "eigenvalues", of |-> A])
       @@ ("_eigenvectors_" :> [kind |-> "eigenvectors", of |-> A])
       @@ ("_coef_" :> A)

\* layers[i].weight exists for the affine layers only
HasWeight(layer) == layer.kind = "Linear"

\* a product of matrices, as the list of its factors from left to right
Product(factors) == [kind |-> "product", factors |-> factors]
\* decoder_weight_list[::-1]
Reversed(list) == [i \in 1..Len(list) |-> list[Len(list) + 1 - i]]
\* self._regressor._decoder.layers[i].weight after the regressor's updates
weight(regressor, i) ==
    [kind |-> "weight", layer |-> i, updates |-> regressor.updates]
\* the list fit collects from every layer of the decoder
decoder_weight_list(regressor) ==
    [i \in 1..Len(regressor.decoder_layers) |-> weight(regressor, i)]
\* np.diag(std)
diag(std) == [kind |-> "diag", of |-> std]
\* the effective linear transformation fit stores as self._ur
effective_linear_transformation(obj, regressor) ==
    LET list == decoder_weight_list(regressor)
        ur == IF Len(list) > 1 THEN Product(Reversed(list)) ELSE list[1]
    IN IF obj.normalize
       THEN Product(<<diag(obj.dm.inverse_transform.std), ur>>)
       ELSE ur

\* the end of fit, on the estimator s2 with its trained regressor and the
\* operator outputs: the effective linear transformation
fit_outputs(s2, warnings) ==
    IF \E i \in 1..Len(s2["_regressor"].decoder_layers) :
          ~HasWeight(s2["_regressor"].decoder_layers[i])
    THEN [self |-> s2, out |-> Outcome("AttributeError", warnings, None)]
    ELSE [self |-> SetAttrs(s2,
             ("_ur" :> effective_linear_transformation(s2, s2["_regressor"]))
             @@ ("_unnormalized_modes" :>
                    [kind |-> "modes",
                     of |-> effective_linear_transformation(
                                s2, s2["_regressor"])])),
          out |-> Outcome("", warnings, None)]

\* the estimator after one more update of its regressor, with the outputs
\* computed from the propagator
with_trained(s1, reg1) ==
    SetAttrs(s1, ("_regressor" :> reg1) @@ KoopmanOutputs(reg1))

\* trainer.fit on the estimator s1 whose data module is set up, and what
\* follows it
fit_train(s1, warnings) ==
    IF training_step_raises(s1["_regressor"], train_batch(s1.dm))
    THEN [self |-> s1, out |-> Outcome("RuntimeError", warnings, None)]
    ELSE fit_outputs(with_trained(s1, [s1["_regressor"] EXCEPT
                                          !.updates = @ + 1]),
                     warnings)

\* fit once self.dm is assigned: p is the outcome of prepare_data on it
fit_prepared(s0, n_samples, p) ==
    IF p.raised # ""
    THEN [self |-> SetAttrs(s0, ("dm" :> p.value)
                                @@ ("n_samples_" :> n_samples)),
          out |-> Outcome(p.raised, p.warnings, None)]
    ELSE fit_train(SetAttrs(s0, ("dm" :> setup(p.value))
                                @@ ("n_samples_" :> n_samples)),
                   p.warnings)

\* fit after the dispatch d on the kinds of x and y
fit_dispatched(obj, s0, d) ==
    IF d.raised # ""
    THEN [self |-> s0, out |-> Outcome(d.raised, {}, None)]
    ELSE fit_prepared(s0, d.n_samples,
             prepare_data(SeqDataModule(d.data_tr, d.data_val,
                                        obj.look_forward, obj.normalize,
                                        obj.normalize_mode,
                                        obj.normalize_std_factor)))

\* NNDMD.fit(x, y), with a trainer set up for one epoch over data that fit
\* in one batch (one optimizer update): the estimator and the outcome it
\* leaves
fit(obj, x, y) ==
    fit_dispatched(obj,
        SetAttrs(obj, ("trainer" :> [kind |-> "Trainer"])
                      @@ ("n_input_features_" :> obj.config_encoder.input_size)),
        fit_dispatch(x, y))

\* sklearn's check_is_fitted(self, attribute)
check_is_fitted(obj, attribute) == hasattr(obj, attribute)

Properties == {"coef_", "state_matrix_", "eigenvalues_", "eigenvectors_",
               "unnormalized_modes", "ur"}
Backing(prop) ==
    CASE prop = "coef_" -> "_coef_"
      [] prop = "state_matrix_" -> "_state_matrix_"
      [] prop = "eigenvalues_" -> "_eigenvalues_"
      [] prop = "eigenvectors_" -> "_eigenvectors_"
      [] prop = "unnormalized_modes" -> "_unnormalized_modes"
      [] prop = "ur" -> "_ur"
\* the properties whose getter calls check_is_fitted first
Checked == Properties \ {"state_matrix_"}

\* the getter of a read-only property
property(obj, prop) ==
    IF prop \in Checked /\ ~check_is_fitted(obj, Backing(prop))
    THEN Outcome("NotFittedError", {}, None)
    ELSE IF ~hasattr(obj, Backing(prop))
    THEN Outcome("AttributeError", {}, None)
    ELSE Outcome("", {}, obj[Backing(prop)])

\* NNDMD._convert_input_ndarray_to_tensor for an array of at most two
\* dimensions: a 1-D array is one row
_convert_input_ndarray_to_tensor(x) ==
    IF x.ndim = 1 THEN FloatTensor(<<x.rows>>)
    ELSE FloatTensor([i \in 1..Len(x.rows) |-> <<x.rows[i]>>])

\* NNDMD.predict(x, n) for an array x and n >= 1
predict(obj, x, n) ==
    IF x.ndim > 2 THEN Outcome("ValueError", {}, None)
    ELSE
    LET tensor == _convert_input_ndarray_to_tensor(x)
        regressor == obj["_regressor"]
    IN IF obj.normalize
       THEN IF ~hasattr(obj, "dm") THEN Outcome("AttributeError", {}, None)
            ELSE IF obj.dm.normalization = None
            THEN Outcome("TypeError", {}, None)   \* None is not callable
            ELSE LET y1 == TensorNormalize_forward(obj.dm.normalization, tensor)
                     y2 == DLKoopmanRegressor_forward(regressor, y1, n)
                     y3 == InverseTensorNormalize_forward(
                               obj.dm.inverse_transform, y2)
                 IN Outcome("", {}, ndarray(2, "float32", y3))
       ELSE Outcome("", {}, ndarray(2, "float32",
                        DLKoopmanRegressor_forward(regressor, tensor, n)))

\* ----------------------------------------------------- the estimator's life
\* Inputs of fit.  Rows carry their index, so that a trajectory shows which
\* rows it was built from; rows of y are offset by 10.
Rows(n, base) == [i \in 1..n |-> base + i]
Array(dt, n) == ndarray(2, dt, Rows(n, 0))
XArrays == {Array(dt, MaxLen) : dt \in DTypes}
           \cup {Array("float32", n) : n \in 1..MaxLen}
XYArrays ==
    {<<Array("float32", n), ndarray(2, "float32", Rows(m, 10))>> :
        n \in 1..MaxLen, m \in 1..MaxLen}
    \cup {<<Array(dt, MaxLen), ndarray(2, "float32", Rows(MaxLen, 10))>> :
             dt \in DTypes}
TrainLists ==
    {pylist(<<Array(dt, MaxLen)>>) : dt \in DTypes}
    \cup {pylist(<<Array("float32", 1)>>)}
    \cup {pylist(<<Array(dt, MaxLen), Array(du, MaxLen)>>) :
             dt \in {"float32", "float64"}, du \in DTypes}
TrainValLists ==
    {<<pylist(<<Array(dt, MaxLen)>>), pylist(<<Array(du, MaxLen)>>)>> :
        dt \in {"float32", "float64"}, du \in DTypes}
    \cup {<<pylist(<<Array("float32", MaxLen)>>),
            pylist(<<ndarray(2, "float32", Rows(n, 10))>>)>> : n \in 1..2}
\* combinations fit does not accept
BadShapes ==
    {<<ndarray(1, "float32", <<1, 2>>), None>>,
     <<Array("float32", 2), pylist(<<Array("float32", 2)>>)>>,
     <<pylist(<<Array("float32", 2)>>), Array("float32", 2)>>,
     <<Other, None>>}
FitInputs ==
    {<<x, None>> : x \in XArrays \cup TrainLists}
    \cup XYArrays \cup TrainValLists \cup BadShapes
PredictInputs == {ndarray(2, "float32", <<1, 2>>), ndarray(1, "float32", <<1>>)}
\* look_forward: the default, and one as long as the longest trajectory
LookForwards == {1, MaxLen}

EstInit ==
    /\ self \in {NNDMD(lf, dec, nz) : lf \in LookForwards,
                                      dec \in DecoderConfigs, nz \in BOOLEAN}
    /\ ret = Call("__init__", <<>>, Outcome("", {}, None))
    /\ Unused(windowing) /\ Unused(criterion)
    /\ Unused(propagator) /\ Unused(network)
    /\ Unused(normalizer) /\ Unused(training)

\* one call of fit, on the inputs in = <<x, y>>
FitCall(in) ==
    \E r \in {fit(self, in[1], in[2])} :
       /\ r.self["_regressor"].updates <= MaxUpdates
       /\ self' = r.self
       /\ ret' = Call("fit", in, r.out)

Fit == \E in \in FitInputs : FitCall(in)

\* reading one of the read-only properties
ReadProperty ==
    \E prop \in Properties :
        /\ ret' = Call(prop, <<>>, property(self, prop))
        /\ UNCHANGED self

Predict ==
    \E x \in PredictInputs, n \in 1..MaxHorizon :
        /\ ret' = Call("predict", <<x, n>>, predict(self, x, n))
        /\ UNCHANGED self

otherVars == <<windowing, criterion, propagator, network, normalizer, training>>
Next ==
    \/ Fit /\ UNCHANGED otherVars
    \/ ReadProperty /\ UNCHANGED otherVars
    \/ Predict /\ UNCHANGED otherVars
Spec == EstInit /\ [][Next]_vars

\* ------------------------------------------------- windowing, on its own
WindowInputs ==
    {<<Rows(T, 0)>> : T \in 1..MaxTrajLen}
    \cup {<<Rows(T, 0), Rows(U, 100)>> : T \in 1..MaxTrajLen, U \in 1..MaxTrajLen}
NoWindows == [x |-> <<>>, yseq |-> <<>>, ys |-> <<>>]

WindowInit ==
    /\ windowing \in {[data_list |-> d, look_forward |-> L, done |-> FALSE,
                        delayed |-> NoWindows] :
                          d \in WindowInputs, L \in 1..MaxWindow}
    /\ Unused(self) /\ Unused(ret) /\ Unused(criterion)
    /\ Unused(propagator) /\ Unused(network)
    /\ Unused(normalizer) /\ Unused(training)

\* prepare_data's call of the windowing, with look_back 1
Convert ==
    /\ ~windowing.done
    /\ windowing' = [windowing EXCEPT
           !.delayed = convert_seq_list_to_delayed_data(
                           windowing.data_list, 1, windowing.look_forward),
           !.done = TRUE]
    /\ UNCHANGED <<self, ret, criterion, propagator, network, normalizer,
                   training>>

SpecWindow == WindowInit /\ [][Convert]_vars

\* ------------------------------------------------------ the loss, on its own
\* Batches of one or two samples, with one or two features.  The outputs
\* take every pattern of zeros and ones over (sample, step), the second
\* feature one more than the first; the targets take one of two fixed
\* patterns of zeros and ones.
OutputTensors(B, H, F) ==
    {[i \in 1..B |-> [t \in 1..H |-> [f \in 1..F |-> o[i][t] + f - 1]]] :
        o \in [1..B -> [1..H -> {0, 1}]]}
TargetPattern(B, H, F, k) ==
    [i \in 1..B |-> [t \in 1..H |-> [f \in 1..F |-> (i + t + k) % 2]]]
Criteria(B, H, F) ==
    {[output |-> o, target |-> TargetPattern(B, H, F, k),
      target_lens |-> lens, max_look_forward |-> cap,
      done |-> FALSE, mse_loss |-> [num |-> 0, den |-> 0]] :
         o \in OutputTensors(B, H, F), k \in {0, 1},
         lens \in [1..B -> 0..H], cap \in 1..H}

CriterionInit ==
    /\ criterion \in
          UNION {Criteria(shape[1], shape[2], shape[3]) :
                    shape \in (1..2) \X (1..MaxPad) \X (1..2)}
    /\ Unused(self) /\ Unused(ret) /\ Unused(windowing)
    /\ Unused(propagator) /\ Unused(network)
    /\ Unused(normalizer) /\ Unused(training)

Forward ==
    /\ ~criterion.done
    /\ criterion' = [criterion EXCEPT
           !.mse_loss = MaskedMSELoss(criterion.output, criterion.target,
                                      criterion.target_lens,
                                      criterion.max_look_forward),
           !.done = TRUE]
    /\ UNCHANGED <<self, ret, windowing, propagator, network, normalizer,
                   training>>

SpecLoss == CriterionInit /\ [][Forward]_vars

\* ------------------------------------------- DissipativeKoopmanOperator
\* Parameters are whole numbers of some small unit; the latent space has
\* two dimensions.
Dim == {1, 2}
\* the draws of trunc_normal_, in units
Draws == -1..1
ParamRange == -MaxParam..MaxParam

\* DissipativeKoopmanOperator.__init__
DissipativeKoopmanOperator(S, v) ==
    [off_diagonal |-> S, diagonal |-> [i \in Dim |-> -(v[i] * v[i])]]

\* DissipativeKoopmanOperator.get_K
get_K(op) ==
    [i \in Dim |-> [j \in Dim |->
        (IF i = j THEN op.diagonal[i] ELSE 0)
        + op.off_diagonal[i][j] - op.off_diagonal[j][i]]]

KoopmanInit ==
    /\ propagator \in {DissipativeKoopmanOperator(S, v) :
                          S \in [Dim -> [Dim -> Draws]], v \in [Dim -> Draws]}
    /\ Unused(self) /\ Unused(ret) /\ Unused(windowing)
    /\ Unused(criterion) /\ Unused(network)
    /\ Unused(normalizer) /\ Unused(training)

\* one optimizer update of the registered parameters: every entry of
\* `diagonal`, and one entry of `off_diagonal`, moves by a step the
\* gradient decides
OptimizerStep ==
    \E gd \in [Dim -> -1..1], i \in Dim, j \in Dim, go \in -1..1 :
        /\ \A k \in Dim : propagator.diagonal[k] + gd[k] \in ParamRange
        /\ propagator.off_diagonal[i][j] + go \in ParamRange
        /\ propagator' =
              [diagonal |-> [k \in Dim |-> propagator.diagonal[k] + gd[k]],
               off_diagonal |-> [propagator.off_diagonal EXCEPT ![i][j] = @ + go]]
        /\ UNCHANGED <<self, ret, windowing, criterion, network, normalizer,
                       training>>

SpecKoopman == KoopmanInit /\ [][OptimizerStep]_vars

\* --------------------------------------------------- FFNN, on its own
HiddenSizes == UNION {[1..n -> 1..2] : n \in 0..MaxHidden}
NetworkInit ==
    /\ network \in {[config |-> [input_size |-> n, hidden_sizes |-> h,
                                  output_size |-> 1, activations |-> a],
                      layers |-> <<>>] :
                        n \in 1..2, h \in HiddenSizes, a \in Activations}
    /\ Unused(self) /\ Unused(ret) /\ Unused(windowing)
    /\ Unused(criterion) /\ Unused(propagator)
    /\ Unused(normalizer) /\ Unused(training)

\* FFNN(**config)
Construct ==
    /\ network.layers = <<>>
    /\ network' = [network EXCEPT !.layers =
           FFNN(network.config.input_size, network.config.hidden_sizes,
                network.config.output_size, network.config.activations)]
    /\ UNCHANGED <<self, ret, windowing, criterion, propagator, normalizer,
                   training>>

SpecFFNN == NetworkInit /\ [][Construct]_vars

\* ------------------------------------------- normalization, on its own
\* Training rows of two dimensions, in units of 1e-6: a dimension may be
\* constant, spread by less than the threshold, or by more.
StateValues == 0..2
TrainingRows == UNION {[1..N -> [1..2 -> StateValues]] : N \in 1..MaxRows}
RoundTripInputs == {<<0, 0>>, <<1, 2>>, <<-3, 5>>}

NormalizerInit ==
    /\ normalizer \in
          {[rows |-> rows, normalize_mode |-> mode, x |-> x,
            mean |-> None, std |-> None, normalization |-> None,
            inverse_transform |-> None, y |-> None] :
               rows \in TrainingRows, mode \in {"equal", "max"},
               x \in RoundTripInputs}
    /\ Unused(self) /\ Unused(ret) /\ Unused(windowing) /\ Unused(criterion)
    /\ Unused(propagator) /\ Unused(network) /\ Unused(training)

\* the statistics block of prepare_data, on the stacked rows
FindMeanStd ==
    /\ normalizer.normalization = None
    /\ LET stats == Statistics(normalizer.rows, normalizer.normalize_mode,
                               normalize_std_factor)
       IN normalizer' = [normalizer EXCEPT
              !.mean = stats.mean, !.std = stats.std,
              !.normalization = TensorNormalize(stats.mean, stats.std),
              !.inverse_transform =
                  InverseTensorNormalize(stats.mean, stats.std)]
    /\ UNCHANGED <<self, ret, windowing, criterion, propagator, network,
                   training>>

\* inverse_transform(normalization(x)), as predict composes them
RoundTrip ==
    /\ normalizer.normalization # None
    /\ normalizer.y = None
    /\ normalizer' = [normalizer EXCEPT !.y =
           InverseTensorNormalize_forward(normalizer.inverse_transform,
               TensorNormalize_forward(normalizer.normalization,
                                       FloatTensor(<<normalizer.x>>)))]
    /\ UNCHANGED <<self, ret, windowing, criterion, propagator, network,
                   training>>

SpecNormalize == NormalizerInit /\ [][FindMeanStd \/ RoundTrip]_vars

\* ------------------------------------------- the training step, on its own
\* Regressors with the values of their parameters: an encoder from one
\* dimension to a latent space of two, with or without a hidden layer, a
\* decoder back, and a propagator whose generator K has square zero.
TrainingEncoders ==
    {[input_size |-> 1, hidden_sizes |-> <<>>, output_size |-> 2,
      activations |-> "linear"],
     [input_size |-> 1, hidden_sizes |-> <<2>>, output_size |-> 2,
      activations |-> "relu"]}
TrainingDecoders ==
    {[input_size |-> 2, hidden_sizes |-> <<>>, output_size |-> 1,
      activations |-> "linear"],
     [input_size |-> 2, hidden_sizes |-> <<2>>, output_size |-> 1,
      activations |-> "relu"]}
Generator(k) == <<<<0, k>>, <<0, 0>>>>
TrainingRegressors ==
    {WithValues(DLKoopmanRegressor(L, dec), enc, -1, 1, Generator(0)) :
        L \in 1..MaxPad, enc \in TrainingEncoders, dec \in TrainingDecoders}
\* Batches of one or two samples as collate_fn gives them: x[i] is the state
\* i, y[i] holds the ys[i] states after it, padded with zeros to H steps
TrainingBatch(H, ys) ==
    [x |-> [i \in 1..Len(ys) |-> FloatTensor(<<<<i>>>>)],
     y |-> [i \in 1..Len(ys) |->
              FloatTensor([t \in 1..H |->
                              IF t <= ys[i] THEN <<i + t>> ELSE <<0>>])],
     ys |-> ys]
TrainingBatches(L) ==
    UNION {{TrainingBatch(H, ys) : ys \in UNION {[1..B -> 0..H] : B \in 1..2}}
           : H \in 1..L}

TrainingInit ==
    /\ \E regressor \in TrainingRegressors :
         \E batch \in TrainingBatches(regressor.look_forward) :
            training = [regressor |-> regressor, batch |-> batch,
                        results |-> <<>>]
    /\ self = None /\ ret = None
    /\ Unused(windowing) /\ Unused(criterion)
    /\ Unused(propagator) /\ Unused(network) /\ Unused(normalizer)

\* what a call leaves in the record of results: who computed the loss, with
\* which parameters, and the loss
Result(by, regressor, r) ==
    [by |-> by, parameters |-> regressor.parameters, raised |-> r.raised,
     loss |-> r.loss, rnn_loss |-> r.rnn_loss, rec_loss |-> r.rec_loss]

\* the standard mode's training step on the batch
TrainingStep ==
    /\ Len(training.results) < MaxCalls
    /\ \E r \in {training_step(training.regressor, training.batch)} :
          training' = [training EXCEPT
              !.regressor = r.regressor,
              !.results = Append(@, Result("training_step",
                                           training.regressor, r))]
    /\ UNCHANGED <<self, ret, windowing, criterion, propagator, network,
                   normalizer>>

\* one evaluation of the closure by the L-BFGS optimizer
Closure ==
    /\ Len(training.results) < MaxCalls
    /\ \E r \in {closure(training.regressor, training.batch)} :
          training' = [training EXCEPT
              !.regressor = r.regressor,
              !.results = Append(@, Result("closure",
                                           training.regressor, r))]
    /\ UNCHANGED <<self, ret, windowing, criterion, propagator, network,
                   normalizer>>

\* an update of the parameters by the optimizer: the generator changes
ParameterUpdate ==
    /\ training.regressor.updates < MaxUpdates
    /\ training' = [training EXCEPT
          !.regressor.updates = @ + 1,
          !.regressor.parameters["_koopman_propagator"].K =
              Generator(@[1][2] + 1)]
    /\ UNCHANGED <<self, ret, windowing, criterion, propagator, network,
                   normalizer>>

SpecTraining ==
    TrainingInit /\ [][TrainingStep \/ Closure \/ ParameterUpdate]_vars
\* ================================================================ claims
\* Some fit has run to its last statement: _unnormalized_modes is assigned
\* there and nowhere else.
FitCompleted == hasattr(self, "_unnormalized_modes")

\* C1: on an estimator on which fit has never completed, a read of any of
\* the read-only properties fails with the not-fitted error.
C1_ReadBeforeFitIsNotFitted ==
    (ret.op \in Properties /\ ~FitCompleted) => ret.raised = "NotFittedError"

\* C2: predict before any fit has completed fails, whatever `normalize` is;
\* it never returns a forecast.
C2_PredictBeforeFitFails ==
    (ret.op = "predict" /\ ~FitCompleted) => ret.raised # ""

\* the four combinations of x and y that fit accepts
Accepted(in) ==
    \/ IsArray2D(in[1]) /\ in[2] = None
    \/ IsArray2D(in[1]) /\ IsArray2D(in[2])
    \/ isinstance(in[1], "list") /\ in[2] = None
    \/ isinstance(in[1], "list") /\ isinstance(in[2], "list")

\* C3: fit on any other combination raises the input-shape error and leaves
\* the estimator as it was: no attribute is created or changed.
C3_BadShapeLeavesNoState ==
    [][(ret'.op = "fit" /\ ~Accepted(ret'.args))
          => (ret'.raised = "ValueError" /\ self' = self)]_vars

\* C4: a 2-D array of T rows becomes the T-1 trajectories [x[i], x[i+1]];
\* two 2-D arrays of equal length N become the N trajectories [x[i], y[i]].
C4_ArraysBecomePairs ==
    [][(ret'.op = "fit" /\ IsArray2D(ret'.args[1])) =>
          LET x == ret'.args[1].rows
              y == ret'.args[2].rows
              got == RowsOf(self'.dm.data_tr.items)
          IN /\ ret'.args[2] = None =>
                    got = [i \in 1..(Len(x) - 1) |-> <<x[i], x[i + 1]>>]
             /\ (IsArray2D(ret'.args[2]) /\ Len(y) = Len(x)) =>
                    got = [i \in 1..Len(x) |-> <<x[i], y[i]>>]]_vars
\* the samples the claim names for one trajectory: the current state, the
\* future states, the valid length, and the states left after the current one
ClaimedSamples(seq, L) ==
    LET T == Len(seq)
    IN IF T > L + 1
       THEN [i \in 1..(T - L) |->
                [x |-> seq[i], y |-> SubSeq(seq, i + 1, i + L), h |-> L,
                 left |-> T - i]]
       ELSE <<[x |-> seq[1], y |-> SubSeq(seq, 2, T), h |-> T - 1,
               left |-> T - 1]>>

\* C5: a trajectory of T states gives T - L samples (state i, the L states
\* after it) when T > L + 1 and the one sample (state 0, the states after
\* it) of valid length T - 1 otherwise; every valid length is
\* min(L, states left) and at most the padded horizon.
C5_WindowsAsClaimed ==
    windowing.done =>
        LET d == windowing.delayed
            L == windowing.look_forward
            claimed == Flatten([k \in 1..Len(windowing.data_list) |->
                           ClaimedSamples(windowing.data_list[k], L)])
        IN /\ Len(d.x) = Len(claimed)
           /\ Len(d.yseq) = Len(claimed)
           /\ Len(d.ys) = Len(claimed)
           /\ \A k \in 1..Len(claimed) :
                 /\ d.x[k] = <<claimed[k].x>>
                 /\ d.ys[k] = claimed[k].h
                 /\ d.ys[k] = Min(L, claimed[k].left)
                 /\ d.ys[k] <= Len(d.yseq[k])
                 /\ SubSeq(d.yseq[k], 1, d.ys[k]) = claimed[k].y

\* a list with a trajectory longer than L + 1 and one shorter has been
\* windowed: several full windows and one short sample
C5_Witness ==
    /\ windowing # None
    /\ windowing.done
    /\ Len(windowing.data_list) = 2
    /\ Len(windowing.data_list[1]) > windowing.look_forward + 2
    /\ Len(windowing.data_list[2]) < windowing.look_forward + 1
    /\ Len(windowing.delayed.ys)
         = Len(windowing.data_list[1]) - windowing.look_forward + 1

\* the positions (i, t, f) the claim counts: t < min(valid_length_i, cap)
ValidPositions(c) ==
    {p \in (1..Len(c.output)) \X (1..Len(c.output[1]))
           \X (1..Len(c.output[1][1])) :
        p[2] <= Min(c.target_lens[p[1]], c.max_look_forward)}
RECURSIVE SquaredError(_, _)
SquaredError(c, S) ==
    IF S = {} THEN 0
    ELSE LET p == CHOOSE q \in S : TRUE
             e == c.output[p[1]][p[2]][p[3]] - c.target[p[1]][p[2]][p[3]]
         IN e * e + SquaredError(c, S \ {p})
\* tensor t with every position outside S overwritten by v
Overwrite(t, S, v) ==
    [i \in 1..Len(t) |-> [k \in 1..Len(t[i]) |-> [f \in 1..Len(t[i][k]) |->
        IF <<i, k, f>> \in S THEN t[i][k][f] ELSE v]]]
\* tensor t with `extra` more steps of padding v
Padded(t, extra, v) ==
    [i \in 1..Len(t) |->
        t[i] \o [k \in 1..extra |-> [f \in 1..Len(t[i][1]) |-> v]]]

Ingested(d) ==
    d.data_tr.items \o (IF d.data_val = None THEN <<>> ELSE d.data_val.items)
IsFloating(a) == a.dtype \in {"float16", "float32", "float64"}
Unsupported(a) == a.dtype \in {"complex64", "complex128"} \/ ~IsFloating(a)
FittedOutputs == {"_state_matrix_", "_eigenvalues_", "_eigenvectors_",
                  "_coef_", "_ur", "_unnormalized_modes"}

\* C7: when a training or validation trajectory is complex or not floating,
\* fit fails with the unsupported-data error, the regressor's parameters are
\* as before and no fitted output has been set or changed.
C7_UnsupportedDataStopsFit ==
    [][ret'.op = "fit" =>
          LET d == fit_dispatch(ret'.args[1], ret'.args[2])
          IN (/\ d.raised = ""
              /\ \E i \in 1..Len(Ingested(d)) : Unsupported(Ingested(d)[i]))
             => /\ ret'.raised = "TypeError"
                /\ self'["_regressor"] = self["_regressor"]
                /\ \A a \in FittedOutputs :
                      /\ hasattr(self', a) <=> hasattr(self, a)
                      /\ hasattr(self, a) => self'[a] = self[a]]_vars

\* a fit has been refused for a complex validation trajectory, on an
\* estimator an earlier fit had trained
C7_Witness ==
    /\ ret.op = "fit"
    /\ ret.raised = "TypeError"
    /\ self["_regressor"].updates = 1
    /\ self.dm.data_val # None
    /\ \E i \in 1..Len(self.dm.data_val.items) :
          np_iscomplexobj(self.dm.data_val.items[i])
    /\ \A i \in 1..Len(self.dm.data_tr.items) :
          ~Unsupported(self.dm.data_tr.items[i])

\* C8: when ingestion gets a float64 trajectory and no unsupported one, it
\* warns of the downcast, replaces every float64 trajectory by its float32
\* conversion, leaves the others alone and does not fail.
C8_Float64WarnsAndConverts ==
    [][ret'.op = "fit" =>
          LET d == fit_dispatch(ret'.args[1], ret'.args[2])
          IN (/\ d.raised = ""
              /\ \E i \in 1..Len(Ingested(d)) : Ingested(d)[i].dtype = "float64"
              /\ \A i \in 1..Len(Ingested(d)) : ~Unsupported(Ingested(d)[i]))
             => LET dm == self'.dm
                    after == dm.data_tr.items
                             \o (IF dm.data_val = None THEN <<>>
                                 ELSE dm.data_val.items)
                IN /\ WarnFloat64 \in ret'.warnings
                   /\ ret'.raised # "TypeError"
                   /\ Len(after) = Len(Ingested(d))
                   /\ \A i \in 1..Len(after) :
                         after[i] = IF Ingested(d)[i].dtype = "float64"
                                    THEN astype(Ingested(d)[i], "float32")
                                    ELSE Ingested(d)[i]]_vars

\* C9: at construction and after any parameter updates the generator of the
\* dissipative propagator is skew-symmetric off the diagonal with every
\* diagonal entry <= 0, and (for two dimensions: trace <= 0, determinant
\* >= 0) its eigenvalues have non-positive real part.
C9_GeneratorDissipative ==
    LET K == get_K(propagator)
    IN /\ \A i \in Dim, j \in Dim : i # j => K[i][j] = -K[j][i]
       /\ \A i \in Dim : K[i][i] <= 0
       /\ K[1][1] + K[2][2] <= 0
       /\ K[1][1] * K[2][2] - K[1][2] * K[2][1] >= 0

\* C10: the last affine layer of a constructed network has no bias, and a
\* network with the linear activation has no bias in any layer.
C10_LastLayerHasNoBias ==
    network.layers # <<>> =>
        LET layers == network.layers
            affine == {i \in 1..Len(layers) : layers[i].kind = "Linear"}
            last == CHOOSE i \in affine : \A j \in affine : j <= i
        IN /\ ~layers[last].bias
           /\ network.config.activations = "linear" =>
                 \A i \in affine : ~layers[i].bias

\* the tensor z advanced by k applications of the propagator
RECURSIVE Advanced(_, _, _)
Advanced(regressor, z, k) ==
    IF k = 0 THEN z
    ELSE Module(regressor, "_koopman_propagator", Advanced(regressor, z, k - 1))

\* C11: what predict(x, n) returns is the decoding of the encoding of x
\* advanced by exactly n applications of the propagator, the k-th step of
\* the propagated sequence being the encoding advanced k times, with x
\* normalized before and the result de-normalized after iff normalization
\* is enabled; with identity modules predict(x, 1) has the value of x.
C11_PredictComposes ==
    (ret.op = "predict" /\ ret.raised = "") =>
        LET x == _convert_input_ndarray_to_tensor(ret.args[1])
            n == ret.args[2]
            regressor == self["_regressor"]
            input == IF self.normalize
                     THEN TensorNormalize_forward(self.dm.normalization, x)
                     ELSE x
            z == Module(regressor, "_encoder", input)
            decoded == Module(regressor, "_decoder", Advanced(regressor, z, n))
            phi_seq == _propagate_encoded_n_steps(regressor, z, n)
        IN /\ ret.value.rows =
                 IF self.normalize
                 THEN InverseTensorNormalize_forward(self.dm.inverse_transform,
                                                     decoded)
                 ELSE decoded
           /\ Len(phi_seq) = n
           /\ \A k \in 1..n : phi_seq[k] = Advanced(regressor, z, k)
           /\ n = 1 => Value(ret.value.rows) = Value(x)

\* a fitted estimator with normalization has returned a forecast two or
\* more steps ahead
C11_Witness ==
    /\ ret.op = "predict"
    /\ ret.raised = ""
    /\ hasattr(self, "_unnormalized_modes")
    /\ self.normalize
    /\ ret.args[2] >= 2
    /\ Len(ret.args[1].rows) = 2

\* the statistics of the training trajectories a call of fit is given
TrainingStatistics(in) ==
    LET tr == check_list_of_nparray(fit_dispatch(in[1], in[2]).data_tr.items)
    IN Statistics(np_vstack(tr.value), self.normalize_mode,
                  self.normalize_std_factor)
Stats(dm) == IF hasattr(dm, "std") THEN <<dm.mean, dm.std>> ELSE None

\* C12: the statistics a fit leaves are those of its training trajectories
\* alone, the same with, without or with another validation set; they
\* are in place when the first training step fails, are what the
\* transforms and the datasets hold after training, and no read of a
\* property and no predict call changes them.
C12_StatisticsFromTrainingOnly ==
    [][
          /\ (ret'.op = "fit"
              /\ fit_dispatch(ret'.args[1], ret'.args[2]).raised = ""
              /\ hasattr(self'.dm, "std")) =>
             LET dm == self'.dm
                 expected == TrainingStatistics(ret'.args)
             IN /\ Stats(dm) = <<expected.mean, expected.std>>
                /\ dm.normalization = TensorNormalize(dm.mean, dm.std)
                /\ dm.inverse_transform = InverseTensorNormalize(dm.mean, dm.std)
                /\ hasattr(dm, "tr_dataset") =>
                      dm.tr_dataset.normalization = dm.normalization
                /\ hasattr(dm, "val_dataset") =>
                      dm.val_dataset.normalization = dm.normalization
          /\ (ret'.op = "fit" /\ isinstance(ret'.args[1], "list")
              /\ isinstance(ret'.args[2], "list")) =>
                Stats(self'.dm) = Stats(fit(self, ret'.args[1], None).self.dm)
          /\ (ret'.op = "fit" /\ ret'.raised = "RuntimeError"
              /\ self.normalize) => hasattr(self'.dm, "std")
          /\ (ret'.op # "fit" /\ hasattr(self, "dm")) =>
                (hasattr(self', "dm") /\ self'.dm = self.dm)
      ]_vars

\* a fit with a validation set of other rows than the training set has
\* trained with normalization
C12_Witness ==
    /\ ret.op = "fit"
    /\ ret.raised = ""
    /\ self.normalize
    /\ hasattr(self.dm, "val_dataset")
    /\ RowsOf(self.dm.data_val.items) # RowsOf(self.dm.data_tr.items)
    /\ self["_regressor"].updates = 1

\* C13: in both modes and for every training set, constant dimensions
\* included, the stored mean is zero and every component of the stored
\* scale is strictly positive, and de-normalizing the normalization of x
\* gives x.
C13_GuardedScaleRoundTrip ==
    /\ normalizer.normalization # None =>
          /\ \A k \in 1..Len(normalizer.mean) : normalizer.mean[k] = 0
          /\ \A k \in 1..Len(normalizer.std) : ScalePositive(normalizer.std[k])
          /\ normalizer.normalization.std = normalizer.std
          /\ normalizer.inverse_transform.std = normalizer.std
    /\ normalizer.y # None =>
          Value(normalizer.y) = Value(FloatTensor(<<normalizer.x>>))

\* the round trip has been made in mode "equal" with one dimension constant,
\* so floored, and the other spread beyond the threshold
C13_Witness ==
    /\ normalizer # None
    /\ normalizer.y # None
    /\ normalizer.normalize_mode = "equal"
    /\ normalizer.x = <<-3, 5>>
    /\ normalizer.std[1].sq.num = 0
    /\ normalizer.std[1].plus = StdFloor
    /\ normalizer.std[2].sq.num > 0
    /\ normalizer.std[2].plus = 0
\* C14: for the same batch and the same parameter values the closure of the
\* L-BFGS mode and the training step of the standard mode give the same
\* outcome and the same total loss, so do any two evaluations of the
\* closure, and an evaluation of the closure changes nothing of the
\* regressor but its gradients and its logged metrics, and nothing of the
\* batch.
C14_ClosureMatchesTrainingStep ==
    [][
        /\ \A i \in 1..Len(training'.results) :
           \A j \in 1..Len(training'.results) :
              LET a == training'.results[i]
                  b == training'.results[j]
              IN a.parameters = b.parameters =>
                    /\ a.raised = b.raised
                    /\ a.raised = "" =>
                          /\ RationalEq(a.loss, b.loss)
                          /\ RationalEq(a.loss,
                                        RationalSum(b.rnn_loss, b.rec_loss))
                          /\ a.loss.den > 0
        /\ ( /\ Len(training'.results) > Len(training.results)
             /\ training'.results[Len(training'.results)].by = "closure" )
           => /\ training'.batch = training.batch
              /\ [training'.regressor EXCEPT !.grad = None, !.logged = None]
                 = [training.regressor EXCEPT !.grad = None,
                                              !.logged = None]
    ]_vars
\* a training step and two evaluations of the closure with the same
\* parameters have returned a positive loss over two samples, one of them
\* padded
C14_Witness ==
    /\ training # None
    /\ Len(training.results) = 3
    /\ training.results[1].by = "training_step"
    /\ training.results[2].by = "closure"
    /\ training.results[3].by = "closure"
    /\ training.results[1].parameters = training.results[3].parameters
    /\ training.results[1].raised = ""
    /\ training.results[1].loss.num > 0
    /\ Len(training.batch.ys) = 2
    /\ training.batch.ys[1] # training.batch.ys[2]
    /\ training.regressor.grad # None

\* the weights of the affine layers of the decoder, last layer first
AffineWeightsReversed(regressor) ==
    LET Affine(i) == HasWeight(regressor.decoder_layers[i])
        affine == SelectSeq([i \in 1..Len(regressor.decoder_layers) |-> i],
                            Affine)
    IN Reversed([k \in 1..Len(affine) |-> weight(regressor, affine[k])])

\* C15: a fit whose training has completed ends without an exception, with
\* the operator, the eigenvalues, the eigenvectors, U_r and the unnormalized
\* modes all set, and U_r is the product of the weights of the decoder's
\* affine layers in reverse order of application, left-multiplied by
\* diag(scale) exactly when normalization is active.
C15_EffectiveOutputMap ==
    [][
        ( /\ ret'.op = "fit"
          /\ self'["_regressor"].updates > self["_regressor"].updates )
        => /\ ret'.raised = ""
           /\ \A a \in FittedOutputs : hasattr(self', a)
           /\ LET W == AffineWeightsReversed(self'["_regressor"])
                  product == IF Len(W) > 1 THEN Product(W) ELSE W[1]
              IN self'["_ur"] =
                    IF self'.normalize
                    THEN Product(<<diag(self'.dm.std), product>>)
                    ELSE product
    ]_vars

\* C16: in the training step of a fit on trajectories of at least two
\* states each, whatever look_forward is, the forecast tensor the step
\* allocates and the padded targets of the batch have the same number of
\* steps, and the number of propagation steps, the longest valid length of
\* the batch, is at least 1 and at most that number.
C16_ForecastMatchesTargets ==
    [][
        ( /\ ret'.op = "fit"
          /\ fit_dispatch(ret'.args[1], ret'.args[2]).raised = ""
          /\ hasattr(self'.dm, "tr_dataset")
          /\ \A i \in 1..Len(self'.dm.data_tr.items) :
                Len(self'.dm.data_tr.items[i].rows) >= 2 )
        => LET batch == train_batch(self'.dm)
               forecast == zeros(Len(batch.x), self["_regressor"].look_forward,
                                 self["_regressor"].input_size)
               horizon == size0(batch.y[1])
               batch_look_forward == SeqMax(batch.ys)
           IN /\ Len(forecast[1]) = horizon
              /\ 1 <= batch_look_forward
              /\ batch_look_forward <= horizon
    ]_vars

\* the fit that produced a stored output, named by the number of updates
\* the regressor had taken when the output was computed
ProducedBy(output) ==
    CASE output.kind = "operator" -> output.updates
      [] output.kind \in {"eigenvalues", "eigenvectors"} -> output.of.updates
      [] output.kind = "weight" -> output.updates
      [] output.kind = "product" ->
            LET last == output.factors[Len(output.factors)]
            IN IF last.kind = "weight" THEN last.updates
               ELSE last.factors[Len(last.factors)].updates

\* C17: after any sequence of fit calls, once all fitted outputs are set the
\* operator, the eigenvalues, the eigenvectors and U_r come from the one fit
\* that trained the regressor predict uses, with the scale of the data
\* module predict normalizes with; and a fit that fails after a completed
\* fit leaves the outputs, the regressor and the data module with its
\* statistics as that completed fit left them.
C17_OutputsFromOneFit ==
    [][
        /\ (\A a \in FittedOutputs : hasattr(self', a))
           => /\ \A a \in {"_state_matrix_", "_eigenvalues_",
                             "_eigenvectors_", "_coef_", "_ur"} :
                    ProducedBy(self'[a]) = self'["_regressor"].updates
              /\ self'.normalize
                    => self'["_ur"].factors[1] = diag(self'.dm.std)
        /\ ( /\ ret'.op = "fit"
             /\ ret'.raised # ""
             /\ \A a \in FittedOutputs : hasattr(self, a) )
           => /\ \A a \in FittedOutputs :
                    hasattr(self', a) /\ self'[a] = self[a]
              /\ self'["_regressor"] = self["_regressor"]
              /\ self'.dm = self.dm
    ]_vars

====
